---- MODULE Spec2Model ----
(***************************************************************************)
(* Model of scripts/l2pixc_to_rivertile.py: the batch orchestrator main(), *)
(* execute() and write_annotation_file() (Spec, SpecOrder), and the        *)
(* converter make_pixc_from_gdem() followed on its own (SpecConv).         *)
(*                                                                         *)
(* Text is modelled as a sequence of tokens.  In the values the script     *)
(* receives (file names, directories) the separators "_", ".", "-" and "/" *)
(* are tokens of their own and every other token is a fragment without     *)
(* separator characters; the string literals of the script are tokens as   *)
(* written.  split, join, replace and the concatenations of the script are *)
(* then computed as Python computes them.  Str flattens a token sequence   *)
(* to the string it denotes; files and directories on storage are          *)
(* identified by that string.                                              *)
(***************************************************************************)
EXTENDS Integers, Sequences, FiniteSets, TLC

VARIABLES
    args,       \* parsed command line (line 148)
    environ,    \* os.environ, restricted to RIVEROBS
    rdf_files,  \* result of the glob (lines 154-159), in processing order
    files,      \* regular files on storage (absolute path strings)
    dirs,       \* directories on storage (absolute path strings)
    pc,         \* position of main() in its code
    idx,        \* index in rdf_files of the descriptor of the current iteration
    loc,        \* local variables of main() in the current iteration
    error,      \* the exception that left main(), if any
    hist,       \* per descriptor: stage reached, gate observation, exit status, derived paths
    writes,     \* log of file writes: [job, kind, path, data]
    calls,      \* log of external extraction invocations: [job, cmd, rc]
    rcOf,       \* exit status of the extraction process, per descriptor
    pass,       \* 1: the run; 2: the run repeated on another ordering
    first,      \* outcome of pass 1, kept for comparison
    files0,     \* storage before the run
    dirs0,
    conv        \* make_pixc_from_gdem: its arguments, position and local variables

vars == <<args, environ, rdf_files, files, dirs, pc, idx, loc, error, hist,
          writes, calls, rcOf, pass, first, files0, dirs0, conv>>

(***************************************************************************)
(* Bounds                                                                  *)
(***************************************************************************)
MaxJobs == 2

(***************************************************************************)
(* Text helpers                                                            *)
(***************************************************************************)
None == <<>>

RECURSIVE Str(_)
Str(p) == IF p = <<>> THEN "" ELSE Head(p) \o Str(Tail(p))

\* "%s" % v
Format(v) == IF v = None THEN "None" ELSE Str(v)

\* str.split(sep)
RECURSIVE Split(_, _)
Split(s, sep) ==
    IF \A i \in DOMAIN s : s[i] # sep
    THEN <<s>>
    ELSE LET k == CHOOSE i \in DOMAIN s :
                      s[i] = sep /\ \A j \in 1..(i-1) : s[j] # sep
         IN  <<SubSeq(s, 1, k-1)>> \o Split(SubSeq(s, k+1, Len(s)), sep)

\* str.replace(old, new), old being one token
Replace(s, old, new) == [i \in DOMAIN s |-> IF s[i] = old THEN new ELSE s[i]]

Cwd == <<"/", "cwd">>

IsAbs(p) == Len(p) > 0 /\ p[1] = "/"

\* os.path.abspath
Abspath(p) == IF IsAbs(p) THEN p ELSE Cwd \o <<"/">> \o p

\* os.path.join(a, b), b relative
Join(a, b) == a \o <<"/">> \o b

\* os.path.basename
Basename(p) == LET f == Split(p, "/") IN f[Len(f)]

\* os.path.dirname
Dirname(p) ==
    LET S == {i \in DOMAIN p : p[i] = "/"}
        k == CHOOSE i \in S : \A j \in S : j <= i
    IN  IF S = {} THEN <<>> ELSE IF k = 1 THEN <<"/">> ELSE SubSeq(p, 1, k-1)

\* the directories os.makedirs(p) leaves on storage: p and its ancestors
Ancestors(p) ==
    LET a == Abspath(p)
    IN  {Str(SubSeq(a, 1, k)) : k \in {i \in 2..Len(a) : i = Len(a) \/ a[i+1] = "/"}}

IsFile(p) == Str(Abspath(p)) \in files

IsDir(p) == Str(Abspath(p)) \in dirs

(***************************************************************************)
(* Inputs                                                                  *)
(***************************************************************************)
InDir == <<"/", "in">>

RequiredKeys == {"l2pixc file", "true GDEM file"}

\* a descriptor file: its path and the mapping my_rdf.myRdfReader reads from it
Rdf(name, keys) ==
    [path       |-> Join(InDir, name),
     parameters |-> [k \in keys |->
                        IF k = "l2pixc file"
                        THEN Join(InDir, <<"l2pixc-">> \o name)
                        ELSE Join(InDir, <<"gdem-">> \o name)]]

RdfUniverse ==
    { Rdf(<<"pixc", "_", "ann", "_", "1", "_", "2", "_", "3", ".", "rdf">>, RequiredKeys),
      Rdf(<<"sim", "_", "ann", "_", "1", "_", "2", "_", "3", ".", "rdf">>, {"l2pixc file"}),
      Rdf(<<"pixc", "_", "ann", "_", "1", "-", "2", "_", "3", "_", "4", ".", "rdf">>, RequiredKeys),
      Rdf(<<"pixc", "_", "ann", "_", "1", "_", "2", "-", "3", "_", "4", ".", "rdf">>, RequiredKeys),
      Rdf(<<"pixc", "_", "ann", "_", "1", "_", "2", ".", "rdf">>, RequiredKeys),
      Rdf(<<"pixc", "_", "ann", "_", "5", "_", "6", "_", "7", "_", "v2", ".", "rdf">>, RequiredKeys),
      Rdf(<<"pixc", "_", "ann", "_", "4", "_", "5", "_", "6", ".", "rdf">>, {"true GDEM file"}) }

\* orderings of distinct descriptor files, as glob.glob may return them
Batches ==
    UNION { {s \in [1..n -> RdfUniverse] : \A i, j \in 1..n : i # j => s[i] # s[j]}
            : n \in 0..MaxJobs }

OutputDirs == { <<"/", "out">>, <<"run", ".nc">> }

ParamFile == <<"/", "in", "/", "param", ".", "rdf">>

ExitCodes == {0, 2}

NotRun == -1

Stages == {"DISCOVERED", "PATHS_RESOLVED", "SKIPPED_EXISTS", "GDEM_SYNTHESIZED",
           "EXTRACTED", "SHAPEFILES_WRITTEN", "ANNOTATED", "DONE", "FATAL"}

NoError == [type |-> "none", job |-> 0, returncode |-> 0, cmd |-> "", key |-> ""]

NoLoc ==
    [num_cycle |-> None, num_orbit |-> None, lat_tile |-> None,
     river_dir |-> None, river_dir_gdem |-> None, pixc_file |-> None,
     output_riverobs |-> None, output_pixcvec |-> None, river_ann_file |-> None,
     output_riverobs_gdem |-> None, output_pixcvec_gdem |-> None,
     gdem_pixc |-> None, cmd |-> None]

NoGate == [seen |-> FALSE, riverobs |-> FALSE, pixcvec |-> FALSE]

NewHist == [stage |-> "DISCOVERED", gate |-> NoGate, rc |-> NotRun, loc |-> NoLoc]

(***************************************************************************)
(* Path derivation (lines 186-222)                                         *)
(***************************************************************************)
\* line 175
PixcAnnSplit(pixc_ann_file) == Split(Split(Basename(pixc_ann_file), ".")[1], "_")

TileName(c, o, t) == c \o <<"_">> \o o \o <<"_">> \o t

RiverDir(output_dir) == Abspath(Join(output_dir, <<"pixc">>))

RiverDirGdem(output_dir) == Join(output_dir, <<"gdem">>)

OutputRiverobs_hyphen(dir, c, o, t) ==
    Join(dir, <<"rivertile_">> \o c \o <<"-">> \o o \o <<"_">> \o t \o <<".nc">>)

OutputRiverobs(dir, c, o, t) == Join(dir, <<"rivertile_">> \o TileName(c, o, t) \o <<".nc">>)

OutputPixcvec_untiled(dir, c, o, t) == Join(dir, <<"pixcvec", ".nc">>)

OutputPixcvec(dir, c, o, t) == Join(dir, <<"pixcvec_">> \o TileName(c, o, t) \o <<".nc">>)

\* the name derived once, from the first descriptor of the batch
RiverAnnFile_hoisted(output_dir, c, o, t) ==
    LET f == PixcAnnSplit(rdf_files[1].path)
    IN  Join(output_dir, <<"river-annotation_">> \o TileName(f[3], f[4], f[5]) \o <<".rdf">>)

RiverAnnFile(output_dir, c, o, t) ==
    Join(output_dir, <<"river-annotation_">> \o TileName(c, o, t) \o <<".rdf">>)

GdemPixc(dir, c, o, t) ==
    Join(dir, <<"pixel_cloud_gdem">> \o c \o <<"-">> \o o \o <<"_">> \o t \o <<".nc">>)

(***************************************************************************)
(* Initial state: after argument parsing and the glob (lines 134-164)      *)
(***************************************************************************)
Rivertile123(output_dir) ==
    Str(OutputRiverobs(RiverDir(output_dir), <<"1">>, <<"2">>, <<"3">>))

Pixcvec123(output_dir) ==
    Str(OutputPixcvec(RiverDir(output_dir), <<"1">>, <<"2">>, <<"3">>))

RivertileGdem123(output_dir) ==
    Str(Abspath(OutputRiverobs(RiverDirGdem(output_dir), <<"1">>, <<"2">>, <<"3">>)))

PixcvecGdem123(output_dir) ==
    Str(Abspath(OutputPixcvec(RiverDirGdem(output_dir), <<"1">>, <<"2">>, <<"3">>)))

\* what earlier runs may have left under the output directory: nothing, or
\* both branch directories, the observed one holding some of the outputs of
\* tile 1_2_3 and the reference one holding reference outputs of that tile
PriorStorage(output_dir) ==
    LET pixc == Ancestors(RiverDir(output_dir))
        gdem == Ancestors(RiverDirGdem(output_dir))
        obs  == SUBSET {Rivertile123(output_dir), Pixcvec123(output_dir)}
    IN  {[dirs |-> {}, files |-> {}]}
        \cup {[dirs |-> pixc \cup gdem,
               files |-> f \cup {RivertileGdem123(output_dir), PixcvecGdem123(output_dir)}] :
               f \in obs}

BaseDirs == {"/", Str(Cwd), Str(InDir)}

\* make_pixc_from_gdem is not being followed
NoConv ==
    [cpc |-> "idle", given |-> <<>>, gdem_file |-> <<>>, pixc_file |-> <<>>,
     subsample_factor |-> 0,
     landtype |-> <<>>, elevation |-> <<>>, lat |-> <<>>, lon |-> <<>>,
     cross_track |-> <<>>, r_spacing |-> 0, a_spacing |-> 0, A |-> 0, R |-> 0,
     range_index |-> <<>>, azimuth_index |-> <<>>, classif |-> <<>>,
     pixc |-> <<>>, pixc_in |-> <<>>, out |-> <<>>]

\* The input files the descriptors name exist and are readable, and the
\* extraction program is looked up through RIVEROBS (--riverobs_path absent).
Init ==
    /\ args \in [nogdem : BOOLEAN, noshp : BOOLEAN, force : BOOLEAN,
                 output_dir : OutputDirs,
                 parameter_riverobs : {ParamFile},
                 riverobs_path : {None}]
    /\ environ \in [RIVEROBS : {None, <<"/", "opt", "/", "RiverObs">>}]
    /\ rdf_files \in Batches
    /\ \E st \in PriorStorage(args.output_dir) :
          /\ files = st.files
          /\ dirs = BaseDirs \cup st.dirs
    /\ files0 = files
    /\ dirs0 = dirs
    /\ pc = "for"
    /\ idx = 1
    /\ loc = NoLoc
    /\ error = NoError
    /\ hist = [j \in 1..Len(rdf_files) |-> NewHist]
    /\ writes = {}
    /\ calls = {}
    /\ rcOf = [d \in {Str(r.path) : r \in RdfUniverse} |-> NotRun]
    /\ pass = 1
    /\ first = [ended |-> "", files |-> {}, extracted |-> {}]
    /\ conv = NoConv

(***************************************************************************)
(* main(): the loop over the descriptors (lines 166-371)                   *)
(***************************************************************************)
Terminal == {"end", "returned", "raised"}

\* the iteration that just wrote its annotation file is over
Closed(h) ==
    [j \in DOMAIN h |-> IF h[j].stage = "ANNOTATED"
                        THEN [h[j] EXCEPT !.stage = "DONE"] ELSE h[j]]

Exception(type, rc, cmd, key) ==
    [type |-> type, job |-> idx, returncode |-> rc, cmd |-> cmd, key |-> key]

\* line 166: next descriptor
ForNext ==
    /\ pc = "for"
    /\ idx <= Len(rdf_files)
    /\ pc' = "parse"
    /\ hist' = Closed(hist)
    /\ UNCHANGED <<args, environ, rdf_files, files, dirs, idx, loc, error,
                   writes, calls, rcOf, pass, first, files0, dirs0, conv>>

Finish_strict ==
    /\ pc = "for"
    /\ idx > Len(rdf_files)
    /\ pc' = IF Len(rdf_files) = 0 THEN "raised" ELSE "end"
    /\ error' = IF Len(rdf_files) = 0 THEN Exception("ValueError", 0, "", "") ELSE error
    /\ hist' = Closed(hist)
    /\ UNCHANGED <<args, environ, rdf_files, files, dirs, idx, loc,
                   writes, calls, rcOf, pass, first, files0, dirs0, conv>>

\* lines 160-161 and 370-371: the loop is exhausted (at once when the glob
\* matched nothing), main() returns
Finish ==
    /\ pc = "for"
    /\ idx > Len(rdf_files)
    /\ pc' = "end"
    /\ hist' = Closed(hist)
    /\ UNCHANGED <<args, environ, rdf_files, files, dirs, idx, loc, error,
                   writes, calls, rcOf, pass, first, files0, dirs0, conv>>

\* lines 171-179: read the descriptor, take the tile identity from its name
ParseName ==
    /\ pc = "parse"
    /\ LET pixc_ann_split == PixcAnnSplit(rdf_files[idx].path)
           n == Len(pixc_ann_split)
           got == [loc EXCEPT
                     !.num_cycle = IF n >= 3 THEN pixc_ann_split[3] ELSE @,
                     !.num_orbit = IF n >= 4 THEN pixc_ann_split[4] ELSE @,
                     !.lat_tile  = IF n >= 5 THEN pixc_ann_split[5] ELSE @]
       IN  /\ loc' = got
           /\ IF n >= 5
              THEN /\ pc' = "mkdirs"
                   /\ UNCHANGED <<error, hist>>
              ELSE /\ pc' = "raised"
                   /\ error' = Exception("IndexError", 0, "", "")
                   /\ hist' = [hist EXCEPT ![idx].stage = "FATAL"]
    /\ UNCHANGED <<args, environ, rdf_files, files, dirs, idx,
                   writes, calls, rcOf, pass, first, files0, dirs0, conv>>

\* lines 186-192: create the output directories when absent
MakeDirs ==
    /\ pc = "mkdirs"
    /\ LET river_dir == RiverDir(args.output_dir)
           river_dir_gdem == RiverDirGdem(args.output_dir)
           d1 == IF IsDir(river_dir) THEN dirs ELSE dirs \cup Ancestors(river_dir)
           d2 == IF args.nogdem \/ Str(Abspath(river_dir_gdem)) \in d1
                 THEN d1 ELSE d1 \cup Ancestors(river_dir_gdem)
       IN  /\ dirs' = d2
           /\ loc' = [loc EXCEPT
                        !.river_dir = river_dir,
                        !.river_dir_gdem = IF args.nogdem THEN @ ELSE river_dir_gdem]
    /\ pc' = "paths"
    /\ UNCHANGED <<args, environ, rdf_files, files, idx, error, hist,
                   writes, calls, rcOf, pass, first, files0, dirs0, conv>>

Lookup_get(ann_cfg, key) ==
    [found |-> TRUE, value |-> IF key \in DOMAIN ann_cfg THEN ann_cfg[key] ELSE None]

\* ann_cfg[key] (lines 196, 223, 225): KeyError when the key is absent
Lookup(ann_cfg, key) ==
    [found |-> key \in DOMAIN ann_cfg,
     value |-> IF key \in DOMAIN ann_cfg THEN ann_cfg[key] ELSE None]

\* lines 196-203: the input and output paths of the job
ResolvePaths ==
    /\ pc = "paths"
    /\ LET l2pixc == Lookup(rdf_files[idx].parameters, "l2pixc file")
       IN  IF l2pixc.found
           THEN /\ loc' = [loc EXCEPT
                     !.pixc_file = Abspath(l2pixc.value),
                     !.output_riverobs =
                         OutputRiverobs(loc.river_dir, loc.num_cycle, loc.num_orbit, loc.lat_tile),
                     !.output_pixcvec =
                         OutputPixcvec(loc.river_dir, loc.num_cycle, loc.num_orbit, loc.lat_tile),
                     !.river_ann_file =
                         RiverAnnFile(args.output_dir, loc.num_cycle, loc.num_orbit, loc.lat_tile),
                     !.output_riverobs_gdem = None,
                     !.output_pixcvec_gdem = None,
                     !.gdem_pixc = None]
                /\ hist' = [hist EXCEPT ![idx].stage = "PATHS_RESOLVED",
                                        ![idx].loc = loc']
                /\ pc' = "gate"
                /\ UNCHANGED error
           ELSE /\ pc' = "raised"
                /\ error' = Exception("KeyError", 0, "", "l2pixc file")
                /\ hist' = [hist EXCEPT ![idx].stage = "FATAL"]
                /\ UNCHANGED loc
    /\ UNCHANGED <<args, environ, rdf_files, files, dirs, idx,
                   writes, calls, rcOf, pass, first, files0, dirs0, conv>>

GateNoGdem_forced(force, output_riverobs, output_pixcvec) ==
    force /\ IsFile(output_riverobs) /\ IsFile(output_pixcvec)

\* lines 205-207: the existence test of the branch without reference data
GateNoGdem(force, output_riverobs, output_pixcvec) ==
    ~force /\ IsFile(output_riverobs) /\ IsFile(output_pixcvec)

GateGdem_reference(force, output_riverobs, output_pixcvec, output_riverobs_gdem, output_pixcvec_gdem) ==
    ~force /\ IsFile(output_riverobs_gdem) /\ IsFile(output_pixcvec_gdem)

\* lines 215-217: the existence test of the branch with reference data
GateGdem(force, output_riverobs, output_pixcvec, output_riverobs_gdem, output_pixcvec_gdem) ==
    ~force /\ IsFile(output_riverobs) /\ IsFile(output_pixcvec)

ExistsExit_continue(i) == [pc |-> "for", idx |-> i + 1]

\* lines 209 and 219: "return" leaves main() in iteration i
ExistsExit(i) == [pc |-> "returned", idx |-> i]

\* lines 204-219: existing outputs end the run unless --force
Gate ==
    /\ pc = "gate"
    /\ LET seen == [seen |-> TRUE,
                    riverobs |-> IsFile(loc.output_riverobs),
                    pixcvec |-> IsFile(loc.output_pixcvec)]
           gdem == [loc EXCEPT
                      !.output_riverobs_gdem =
                          OutputRiverobs(loc.river_dir_gdem, loc.num_cycle, loc.num_orbit, loc.lat_tile),
                      !.output_pixcvec_gdem =
                          OutputPixcvec(loc.river_dir_gdem, loc.num_cycle, loc.num_orbit, loc.lat_tile)]
           new == IF args.nogdem THEN loc ELSE gdem
           exists == IF args.nogdem
                     THEN GateNoGdem(args.force, loc.output_riverobs, loc.output_pixcvec)
                     ELSE GateGdem(args.force, loc.output_riverobs, loc.output_pixcvec,
                                   gdem.output_riverobs_gdem, gdem.output_pixcvec_gdem)
       IN  /\ loc' = new
           /\ hist' = [hist EXCEPT
                         ![idx].gate = seen,
                         ![idx].loc = new,
                         ![idx].stage = IF exists THEN "SKIPPED_EXISTS" ELSE @]
           /\ pc' = IF exists THEN ExistsExit(idx).pc
                    ELSE IF args.nogdem THEN "cmd" ELSE "gdem"
           /\ idx' = IF exists THEN ExistsExit(idx).idx ELSE idx
    /\ UNCHANGED <<args, environ, rdf_files, files, dirs, error,
                   writes, calls, rcOf, pass, first, files0, dirs0, conv>>

Written(kind, path, data) ==
    [job |-> idx, kind |-> kind, path |-> Str(Abspath(path)), data |-> data]

\* lines 222-228 (and 113-117): the synthetic pixel cloud of the reference branch
SynthesizeGdem ==
    /\ pc = "gdem"
    /\ LET true_gdem == Lookup(rdf_files[idx].parameters, "true GDEM file")
           gdem_pixc == GdemPixc(loc.river_dir_gdem, loc.num_cycle, loc.num_orbit, loc.lat_tile)
       IN  /\ loc' = [loc EXCEPT !.gdem_pixc = gdem_pixc]
           /\ IF true_gdem.found
              THEN /\ files' = files \cup {Str(Abspath(gdem_pixc))}
                   /\ writes' = writes \cup {Written("gdem_pixc", gdem_pixc, <<>>)}
                   /\ hist' = [hist EXCEPT ![idx].stage = "GDEM_SYNTHESIZED",
                                           ![idx].loc = loc']
                   /\ pc' = "cmd"
                   /\ UNCHANGED error
              ELSE /\ pc' = "raised"
                   /\ error' = Exception("KeyError", 0, "", "true GDEM file")
                   /\ hist' = [hist EXCEPT ![idx].stage = "FATAL", ![idx].loc = loc']
                   /\ UNCHANGED <<files, writes>>
    /\ UNCHANGED <<args, environ, rdf_files, dirs, idx,
                   calls, rcOf, pass, first, files0, dirs0, conv>>

Command_reference(path_to_riverobs, pixc_file, output_riverobs, output_pixcvec, parameter_riverobs) ==
    LET prog_name == Join(Join(Join(path_to_riverobs, <<"src">>), <<"bin">>),
                          <<"swot_pixc2rivertile", ".", "py">>)
    IN  prog_name \o <<" ">> \o pixc_file \o <<" ">> \o Replace(output_riverobs, "pixc", "gdem")
        \o <<" ">> \o Replace(output_pixcvec, "pixc", "gdem") \o <<" ">>
        \o Abspath(parameter_riverobs)

\* lines 264-272
Command(path_to_riverobs, pixc_file, output_riverobs, output_pixcvec, parameter_riverobs) ==
    LET prog_name == Join(Join(Join(path_to_riverobs, <<"src">>), <<"bin">>),
                          <<"swot_pixc2rivertile", ".", "py">>)
    IN  prog_name \o <<" ">> \o pixc_file \o <<" ">> \o output_riverobs \o <<" ">>
        \o output_pixcvec \o <<" ">> \o Abspath(parameter_riverobs)

\* lines 259-272: locate the extraction program and build its command line
BuildCommand ==
    /\ pc = "cmd"
    /\ LET path_to_riverobs == IF args.riverobs_path # None
                               THEN args.riverobs_path ELSE environ.RIVEROBS
       IN  IF path_to_riverobs # None
           THEN /\ loc' = [loc EXCEPT !.cmd =
                              Command(path_to_riverobs, loc.pixc_file, loc.output_riverobs,
                                      loc.output_pixcvec, args.parameter_riverobs)]
                /\ pc' = "execute"
                /\ UNCHANGED <<error, hist>>
           ELSE /\ pc' = "raised"
                /\ error' = Exception("KeyError", 0, "", "RIVEROBS")
                /\ hist' = [hist EXCEPT ![idx].stage = "FATAL"]
                /\ UNCHANGED loc
    /\ UNCHANGED <<args, environ, rdf_files, files, dirs, idx,
                   writes, calls, rcOf, pass, first, files0, dirs0, conv>>

Raises_signal(returncode) == returncode < 0

\* lines 128-129: a non-zero exit status raises CalledProcessError(returncode, args)
Raises(returncode) == returncode # 0

\* lines 274-277 and 123-129: run the extraction process; a process that
\* exits with status 0 has written the rivertile and pixcvec files
Execute ==
    /\ pc = "execute"
    /\ LET d == Str(rdf_files[idx].path)
       IN  \E returncode \in ExitCodes :
              /\ rcOf[d] \in {NotRun, returncode}
              /\ rcOf' = [rcOf EXCEPT ![d] = returncode]
              /\ calls' = calls \cup {[job |-> idx, cmd |-> Str(loc.cmd), rc |-> returncode]}
              /\ IF Raises(returncode)
                 THEN /\ pc' = "raised"
                      /\ error' = Exception("CalledProcessError", returncode, Str(loc.cmd), "")
                      /\ hist' = [hist EXCEPT ![idx].stage = "FATAL", ![idx].rc = returncode]
                      /\ UNCHANGED <<files, writes>>
                 ELSE /\ pc' = "shp"
                      /\ files' = files \cup {Str(Abspath(loc.output_riverobs)),
                                              Str(Abspath(loc.output_pixcvec))}
                      /\ writes' = writes \cup {Written("rivertile", loc.output_riverobs, <<>>),
                                                Written("pixcvec", loc.output_pixcvec, <<>>)}
                      /\ hist' = [hist EXCEPT ![idx].stage = "EXTRACTED", ![idx].rc = returncode]
                      /\ UNCHANGED error
    /\ UNCHANGED <<args, environ, rdf_files, dirs, idx, loc,
                   pass, first, files0, dirs0, conv>>

\* a file can be created only in a directory that exists
Writable(path) == IsDir(Dirname(Abspath(path)))

ExportShapefiles_nodes ==
    /\ pc = "shp"
    /\ LET node  == Replace(loc.output_riverobs, ".nc", "_node.shp")
           reach == Replace(loc.output_riverobs, ".nc", "_reach.shp")
       IN  IF args.noshp
           THEN /\ pc' = "ann"
                /\ UNCHANGED <<files, writes, hist, error>>
           ELSE IF Writable(node) /\ Writable(reach)
           THEN /\ pc' = "ann"
                /\ files' = files \cup {Str(Abspath(node)), Str(Abspath(reach))}
                /\ writes' = writes \cup {Written("node_shp", node, <<>>),
                                          Written("reach_shp", reach, <<>>)}
                /\ hist' = [hist EXCEPT ![idx].stage = "SHAPEFILES_WRITTEN"]
                /\ UNCHANGED error
           ELSE /\ pc' = "raised"
                /\ error' = Exception("IOError", 0, "", "")
                /\ hist' = [hist EXCEPT ![idx].stage = "FATAL"]
                /\ UNCHANGED <<files, writes>>
    /\ UNCHANGED <<args, environ, rdf_files, dirs, idx, loc,
                   calls, rcOf, pass, first, files0, dirs0, conv>>

\* lines 305-340: the three shapefiles of the observed branch
ExportShapefiles ==
    /\ pc = "shp"
    /\ LET node  == Replace(loc.output_riverobs, ".nc", "_node.shp")
           reach == Replace(loc.output_riverobs, ".nc", "_reach.shp")
           pvec  == Replace(loc.output_pixcvec, ".nc", ".shp")
       IN  IF args.noshp
           THEN /\ pc' = "ann"
                /\ UNCHANGED <<files, writes, hist, error>>
           ELSE IF Writable(node) /\ Writable(reach) /\ Writable(pvec)
           THEN /\ pc' = "ann"
                /\ files' = files \cup {Str(Abspath(node)), Str(Abspath(reach)), Str(Abspath(pvec))}
                /\ writes' = writes \cup {Written("node_shp", node, <<>>),
                                          Written("reach_shp", reach, <<>>),
                                          Written("pixcvec_shp", pvec, <<>>)}
                /\ hist' = [hist EXCEPT ![idx].stage = "SHAPEFILES_WRITTEN"]
                /\ UNCHANGED error
           ELSE /\ pc' = "raised"
                /\ error' = Exception("IOError", 0, "", "")
                /\ hist' = [hist EXCEPT ![idx].stage = "FATAL"]
                /\ UNCHANGED <<files, writes>>
    /\ UNCHANGED <<args, environ, rdf_files, dirs, idx, loc,
                   calls, rcOf, pass, first, files0, dirs0, conv>>

\* lines 37-43: the lines write_annotation_file writes
AnnotationLines(pixc_file, gdem_pixc, pixcvec_file, pixcvec_file_gdem) ==
    <<[key |-> "pixc file", value |-> Format(pixc_file)],
      [key |-> "gdem pixc file", value |-> Format(gdem_pixc)],
      [key |-> "pixcvec file", value |-> Format(pixcvec_file)]>>
    \o (IF pixcvec_file_gdem # None
        THEN <<[key |-> "pixcvec file from gdem", value |-> Format(pixcvec_file_gdem)]>>
        ELSE <<>>)

\* lines 363-368 and 29-43: the chained annotation file; the iteration ends
WriteAnnotation ==
    /\ pc = "ann"
    /\ files' = files \cup {Str(Abspath(loc.river_ann_file))}
    /\ writes' = writes \cup
          {Written("annotation", loc.river_ann_file,
                   AnnotationLines(loc.pixc_file, loc.gdem_pixc,
                                   loc.output_pixcvec, loc.output_pixcvec_gdem))}
    /\ hist' = [hist EXCEPT ![idx].stage = "ANNOTATED"]
    /\ idx' = idx + 1
    /\ pc' = "for"
    /\ UNCHANGED <<args, environ, rdf_files, dirs, loc, error,
                   calls, rcOf, pass, first, files0, dirs0, conv>>

Next ==
    \/ ForNext
    \/ ParseName
    \/ MakeDirs
    \/ ResolvePaths
    \/ Gate
    \/ SynthesizeGdem
    \/ BuildCommand
    \/ Execute
    \/ ExportShapefiles
    \/ WriteAnnotation
    \/ Finish

Spec == Init /\ [][Next]_vars

(***************************************************************************)
(* The run repeated on another ordering of the same descriptors, from the  *)
(* same storage, flags and exit statuses                                   *)
(***************************************************************************)
\* exchange of the first two descriptors
Swap(s) == [i \in DOMAIN s |-> IF i = 1 THEN s[2] ELSE IF i = 2 THEN s[1] ELSE s[i]]

\* the first descriptor moved to the end
Rotate(s) == Tail(s) \o <<Head(s)>>

\* what a run leaves: how it ended, the files on storage, the jobs extracted
Outcome ==
    [ended     |-> pc,
     files     |-> files,
     extracted |-> {Str(rdf_files[c.job].path) : c \in {x \in calls : x.rc = 0}}]

\* the first run is over: restore the storage and run another ordering; the
\* exchange and the rotation generate every ordering of the batch
Rerun ==
    /\ pass = 1
    /\ pc \in Terminal
    /\ Len(rdf_files) >= 2
    /\ rdf_files' \in {Swap(rdf_files), Rotate(rdf_files)}
    /\ first' = Outcome
    /\ pass' = 2
    /\ files' = files0
    /\ dirs' = dirs0
    /\ pc' = "for"
    /\ idx' = 1
    /\ loc' = NoLoc
    /\ error' = NoError
    /\ hist' = [j \in DOMAIN hist |-> NewHist]
    /\ writes' = {}
    /\ calls' = {}
    /\ UNCHANGED <<args, environ, rcOf, files0, dirs0, conv>>

\* the output directory and RIVEROBS are the same for every job of a run and
\* for both orderings; one value of each is kept here
InitOrder ==
    /\ Init
    /\ args.output_dir = <<"/", "out">>
    /\ environ.RIVEROBS # None

NextOrder == Next \/ Rerun

SpecOrder == InitOrder /\ [][NextOrder]_vars

TypeOK ==
    /\ pc \in {"for", "parse", "mkdirs", "paths", "gate", "gdem", "cmd",
               "execute", "shp", "ann"} \cup Terminal
    /\ idx \in 1..(Len(rdf_files) + 1)
    /\ \A j \in DOMAIN hist : hist[j].stage \in Stages

(***************************************************************************)
(* make_pixc_from_gdem (lines 46-117).  A 2-D array is the sequence of its *)
(* rows, a 1-D array a sequence; positions are counted from 1 and the      *)
(* index values the code produces from 0, as numpy.arange gives them.      *)
(* The real numbers of the files are integers here (1.0 is 1).             *)
(***************************************************************************)
MaxCells == 6

MaxFactor == 3

\* the classes of the landtype array; line 79: "water is value 1 in gdem"
LandTypes == {0, 1, 2}

Water == 1

\* line 101: the interior water class of the pixel cloud
InteriorWater == 4

\* line 102
FullConfidence == 1

\* the shapes A x R of the grids
Shapes == {s \in (1..MaxCells) \X (1..MaxCells) : s[1] * s[2] <= MaxCells}

\* an A x R array whose cells all hold different values
Coded(A, R, base) == [a \in 1..A |-> [r \in 1..R |-> base + 10 * (a - 1) + (r - 1)]]

\* a GDEM file (lines 59-73): the arrays and the global attributes read from it
GdemFile(landtype) ==
    LET A == Len(landtype)
        R == Len(landtype[1])
    IN  [landtype |-> landtype,
         elevation |-> Coded(A, R, -15),
         latitude |-> Coded(A, R, 1000),
         longitude |-> Coded(A, R, 2000),
         cross_track |-> [r \in 1..R |-> 500 + 7 * (r - 1)],
         ground_spacing |-> 3,
         azimuth_spacing |-> 5]

\* a 4 x 3 grid with water in both kept and dropped rows
ExampleLandtype == <<<<0, 1, 0>>, <<1, 1, 0>>, <<0, 0, 1>>, <<1, 0, 0>>>>

GdemFiles ==
    {GdemFile(l) : l \in UNION {[1..s[1] -> [1..s[2] -> LandTypes]] : s \in Shapes}
                          \cup {ExampleLandtype}}

\* the global attributes of a pixel cloud file
GlobalAttributes == {"description", "nr_pixels", "nr_lines", "tile_ref", "num_rare_looks"}

\* the names of the per-pixel arrays of a pixel cloud
PerPixel ==
    {"classification", "continuous_classification", "height", "latitude",
     "longitude", "pixel_area", "cross_track", "range_index", "azimuth_index",
     "illumination_time", "num_rare_looks"}

\* the observed pixel cloud files the attributes are taken from (line 91)
PixcFiles ==
    {[description |-> "simulated pixel cloud", nr_pixels |-> 40, nr_lines |-> 90,
      tile_ref |-> "45N-R", num_rare_looks |-> 7,
      classification |-> <<2, 3, 4>>, height |-> <<8, 9, 7>>],
     [description |-> "pixel cloud", nr_pixels |-> 2, nr_lines |-> 3,
      tile_ref |-> "46N-L", num_rare_looks |-> 2,
      classification |-> <<3>>, height |-> <<6>>]}

\* landtype[::subsample_factor,:] (lines 62-68): rows 0, k, 2k, ...
RECURSIVE Stride_shifted(_, _)
Stride_shifted(v, k) ==
    IF Len(v) < k THEN <<>>
    ELSE <<v[k]>> \o Stride_shifted(SubSeq(v, k + 1, Len(v)), k)

RECURSIVE Stride(_, _)
Stride(v, k) ==
    IF Len(v) = 0 THEN <<>>
    ELSE <<v[1]>> \o Stride(SubSeq(v, k + 1, Len(v)), k)

\* numpy.arange(n)
Arange(n) == [i \in 1..n |-> i - 1]

Meshgrid_transposed(x, y) ==
    [X |-> [a \in 1..Len(y) |-> [r \in 1..Len(x) |-> y[a]]],
     Y |-> [a \in 1..Len(y) |-> [r \in 1..Len(x) |-> x[r]]]]

\* numpy.meshgrid(x, y) (lines 77-78): two arrays of len(y) rows and len(x)
\* columns, the first repeating x along the rows, the second y along the columns
Meshgrid(x, y) ==
    [X |-> [a \in 1..Len(y) |-> [r \in 1..Len(x) |-> x[r]]],
     Y |-> [a \in 1..Len(y) |-> [r \in 1..Len(x) |-> y[a]]]]

\* the array laid out row after row
RECURSIVE Flatten(_)
Flatten(m) == IF Len(m) = 0 THEN <<>> ELSE m[1] \o Flatten(SubSeq(m, 2, Len(m)))

RECURSIVE Compress(_, _)
Compress(v, mask) ==
    IF Len(v) = 0 THEN <<>>
    ELSE (IF mask[1] THEN <<v[1]>> ELSE <<>>)
         \o Compress(SubSeq(v, 2, Len(v)), SubSeq(mask, 2, Len(mask)))

BooleanIndex_all(v, mask) == Flatten(v)

\* v[mask] (lines 80-86): the values where the mask is true, row after row
BooleanIndex(v, mask) == Compress(Flatten(v), Flatten(mask))

\* landtype==1
IsWater(landtype) ==
    [a \in 1..Len(landtype) |-> [r \in 1..Len(landtype[a]) |-> landtype[a][r] = Water]]

Remap_kept(classif, value) == [i \in 1..Len(classif) |-> classif[i] + value]

\* classif*0 + value (lines 101-102)
Remap(classif, value) == [i \in 1..Len(classif) |-> classif[i] * 0 + value]

\* numpy.zeros(numpy.shape(v)) + value (lines 106, 111)
Broadcast(v, value) == [i \in 1..Len(v) |-> 0 + value]

\* obj.name = value
SetAttr(obj, name, value) ==
    [n \in DOMAIN obj \cup {name} |-> IF n = name THEN value ELSE obj[n]]

\* base_classes.PixelCloud()
PixelCloud == [n \in {} |-> 0]

\* base_classes.PixelCloud.from_ncfile(pixc_file, force=True)
FromNcfile(file) == file

\* pixc.copy_attributes(pixc_in)
CopyAttributes(obj, other) ==
    [n \in DOMAIN obj \cup (GlobalAttributes \cap DOMAIN other) |->
        IF n \in GlobalAttributes \cap DOMAIN other THEN other[n] ELSE obj[n]]

\* pixc.to_ncfile(out_name, out_path): the file written
ToNcfile(obj) == obj

GdemDescription == "gdem water pixels repacked as a pixel cloud"

ReplaceGlobals_swapped(pixc, R, A, subsample_factor) ==
    SetAttr(SetAttr(SetAttr(SetAttr(pixc,
        "description", GdemDescription),
        "nr_pixels", A),
        "nr_lines", R),
        "num_rare_looks", subsample_factor)

\* lines 95-99: "replace global attributes"
ReplaceGlobals(pixc, R, A, subsample_factor) ==
    SetAttr(SetAttr(SetAttr(SetAttr(pixc,
        "description", GdemDescription),
        "nr_pixels", R),
        "nr_lines", A),
        "num_rare_looks", subsample_factor)

\* the variables of main() and of the storage, which the converter leaves alone
mainVars == <<args, environ, rdf_files, files, dirs, pc, idx, loc, error, hist,
              writes, calls, rcOf, pass, first, files0, dirs0>>

\* the call make_pixc_from_gdem(gdem_file, pixc_file, out_file, subsample_factor)
Call(gdem_file, pixc_file, subsample_factor) ==
    [NoConv EXCEPT
        !.cpc = "read",
        !.given = [gdem_file |-> gdem_file, pixc_file |-> pixc_file,
                   subsample_factor |-> subsample_factor],
        !.gdem_file = gdem_file,
        !.pixc_file = pixc_file,
        !.subsample_factor = subsample_factor]

\* lines 59-73: read the GDEM, drop azimuth lines
ReadGdem ==
    /\ conv.cpc = "read"
    /\ conv' = [conv EXCEPT
          !.landtype = Stride(conv.gdem_file.landtype, conv.subsample_factor),
          !.elevation = Stride(conv.gdem_file.elevation, conv.subsample_factor),
          !.lat = Stride(conv.gdem_file.latitude, conv.subsample_factor),
          !.lon = Stride(conv.gdem_file.longitude, conv.subsample_factor),
          !.cross_track = conv.gdem_file.cross_track,
          !.r_spacing = conv.gdem_file.ground_spacing,
          !.a_spacing = conv.gdem_file.azimuth_spacing,
          !.cpc = "index"]
    /\ UNCHANGED mainVars

\* lines 76-78: the dimensions and the index arrays of the decimated grid
MakeIndices ==
    /\ conv.cpc = "index"
    /\ LET A == Len(conv.landtype)
           R == Len(conv.landtype[1])
           first_grid == Meshgrid(Arange(R), Arange(A))
           second_grid == Meshgrid(conv.cross_track, Arange(A))
       IN  conv' = [conv EXCEPT
              !.A = A,
              !.R = R,
              !.range_index = first_grid.X,
              !.cross_track = second_grid.X,
              !.azimuth_index = second_grid.Y,
              !.cpc = "select"]
    /\ UNCHANGED mainVars

\* lines 80-86: keep the water pixels
SelectWater ==
    /\ conv.cpc = "select"
    /\ LET mask == IsWater(conv.landtype)
       IN  conv' = [conv EXCEPT
              !.classif = BooleanIndex(conv.landtype, mask),
              !.elevation = BooleanIndex(conv.elevation, mask),
              !.lat = BooleanIndex(conv.lat, mask),
              !.lon = BooleanIndex(conv.lon, mask),
              !.cross_track = BooleanIndex(conv.cross_track, mask),
              !.range_index = BooleanIndex(conv.range_index, mask),
              !.azimuth_index = BooleanIndex(conv.azimuth_index, mask),
              !.cpc = "load"]
    /\ UNCHANGED mainVars

\* lines 88-93: the new pixel cloud takes the attributes of the observed one
LoadAttributes ==
    /\ conv.cpc = "load"
    /\ LET pixc_in == FromNcfile(conv.pixc_file)
       IN  conv' = [conv EXCEPT
              !.pixc_in = pixc_in,
              !.pixc = CopyAttributes(PixelCloud, pixc_in),
              !.cpc = "attrs"]
    /\ UNCHANGED mainVars

\* lines 94-99
ReplaceAttributes ==
    /\ conv.cpc = "attrs"
    /\ conv' = [conv EXCEPT
          !.pixc = ReplaceGlobals(conv.pixc, conv.R, conv.A, conv.subsample_factor),
          !.cpc = "vars"]
    /\ UNCHANGED mainVars

\* lines 100-111: the per-pixel variables
SetVariables ==
    /\ conv.cpc = "vars"
    /\ LET p1 == SetAttr(conv.pixc, "classification", Remap(conv.classif, InteriorWater))
           p2 == SetAttr(p1, "continuous_classification", Remap(conv.classif, FullConfidence))
           p3 == SetAttr(p2, "height", conv.elevation)
           p4 == SetAttr(p3, "latitude", conv.lat)
           p5 == SetAttr(p4, "longitude", conv.lon)
           p6 == SetAttr(p5, "pixel_area",
                         Broadcast(conv.lat, conv.r_spacing * conv.a_spacing
                                             * conv.subsample_factor))
           p7 == SetAttr(p6, "cross_track", conv.cross_track)
           p8 == SetAttr(p7, "range_index", conv.range_index)
           p9 == SetAttr(p8, "azimuth_index", conv.azimuth_index)
           p10 == SetAttr(p9, "illumination_time", conv.azimuth_index)
           p11 == SetAttr(p10, "num_rare_looks",
                          Broadcast(conv.azimuth_index, conv.subsample_factor))
       IN  conv' = [conv EXCEPT !.pixc = p11, !.cpc = "write"]
    /\ UNCHANGED mainVars

\* lines 112-117: write the pixel cloud
WriteNcfile ==
    /\ conv.cpc = "write"
    /\ conv' = [conv EXCEPT !.out = ToNcfile(conv.pixc), !.cpc = "done"]
    /\ UNCHANGED mainVars

\* one call of the converter on its own, on every grid, observed pixel cloud
\* and factor of the bounds; main() is not started
InitConv ==
    /\ conv \in {Call(g, p, k) : g \in GdemFiles, p \in PixcFiles, k \in 1..MaxFactor}
    /\ args = [nogdem |-> FALSE, noshp |-> FALSE, force |-> FALSE,
               output_dir |-> <<"/", "out">>,
               parameter_riverobs |-> ParamFile,
               riverobs_path |-> None]
    /\ environ = [RIVEROBS |-> None]
    /\ rdf_files = <<>>
    /\ files = {}
    /\ dirs = BaseDirs
    /\ files0 = files
    /\ dirs0 = dirs
    /\ pc = "for"
    /\ idx = 1
    /\ loc = NoLoc
    /\ error = NoError
    /\ hist = [j \in 1..Len(rdf_files) |-> NewHist]
    /\ writes = {}
    /\ calls = {}
    /\ rcOf = [d \in {Str(r.path) : r \in RdfUniverse} |-> NotRun]
    /\ pass = 1
    /\ first = [ended |-> "", files |-> {}, extracted |-> {}]

NextConv ==
    \/ ReadGdem
    \/ MakeIndices
    \/ SelectWater
    \/ LoadAttributes
    \/ ReplaceAttributes
    \/ SetVariables
    \/ WriteNcfile

SpecConv == InitConv /\ [][NextConv]_vars

(***************************************************************************)
(* Properties                                                              *)
(***************************************************************************)
WritesOf(j) == {w \in writes : w.job = j}

CallsOf(j) == {c \in calls : c.job = j}

Untouched(j) == hist[j] = NewHist /\ WritesOf(j) = {} /\ CallsOf(j) = {}

\* C1 (as stated): once the run is over, every descriptor that comes after
\* one skipped because its outputs exist has been processed: it was skipped
\* too, is done, or ended in a fatal error of its own.
C1_SkipMovesOn ==
    pc \in Terminal =>
        \A i, j \in DOMAIN hist :
            i < j /\ hist[i].stage = "SKIPPED_EXISTS"
                => hist[j].stage \in {"SKIPPED_EXISTS", "DONE", "FATAL"}

\* C1 (amended): a job skipped because its outputs exist ends the run there,
\* without error: main() has returned in that iteration, every earlier
\* descriptor is done and no later descriptor is ever processed.
C1_SkipEndsRun ==
    \A i \in DOMAIN hist :
        hist[i].stage = "SKIPPED_EXISTS" =>
            /\ pc = "returned"
            /\ idx = i
            /\ error = NoError
            /\ \A j \in DOMAIN hist : j < i => hist[j].stage = "DONE"
            /\ \A j \in DOMAIN hist : j > i => Untouched(j)

C1_Witness ==
    /\ pc = "returned"
    /\ Len(rdf_files) = 2
    /\ idx = 1
    /\ hist[1].stage = "SKIPPED_EXISTS"

\* C2: an extraction process that ends with a non-zero exit status makes
\* execute raise CalledProcessError with that status and the command; the
\* run is over: that job was called once, has no shapefile and no
\* annotation file, and no later job is started.
C2_ProcessFailureAborts ==
    \A c \in calls :
        c.rc # 0 =>
            /\ pc = "raised"
            /\ idx = c.job
            /\ error = [type |-> "CalledProcessError", job |-> c.job,
                        returncode |-> c.rc, cmd |-> c.cmd, key |-> ""]
            /\ hist[c.job].stage = "FATAL"
            /\ CallsOf(c.job) = {c}
            /\ \A w \in WritesOf(c.job) : w.kind = "gdem_pixc"
            /\ \A j \in DOMAIN hist : j > c.job => Untouched(j)

C2_Witness ==
    /\ pc = "raised"
    /\ error.type = "CalledProcessError"
    /\ error.returncode = 2
    /\ error.job < Len(rdf_files)
    /\ ~args.noshp

\* C3: a job found at the gate with the force flag unset and both
\* observed-branch outputs present is skipped, and nothing is done for it: no
\* extraction call and no file written (no synthetic pixel cloud, no
\* shapefile, no annotation file).
C3_SkipTouchesNothing ==
    \A j \in DOMAIN hist :
        (hist[j].gate.seen /\ ~args.force /\ hist[j].gate.riverobs /\ hist[j].gate.pixcvec)
            => /\ hist[j].stage = "SKIPPED_EXISTS"
               /\ CallsOf(j) = {}
               /\ WritesOf(j) = {}

C3_Witness ==
    \E j \in DOMAIN hist :
        /\ hist[j].stage = "SKIPPED_EXISTS"
        /\ ~args.nogdem
        /\ ~args.noshp
        /\ "true GDEM file" \in DOMAIN rdf_files[j].parameters

\* C4: with or without the reference branch, a job is skipped exactly when
\* the force flag is unset and both observed-branch outputs exist at the
\* gate, whatever reference-branch files exist; and a synthetic ground-truth
\* pixel cloud is written only for a job the gate has let through.
C4_GateSameInBothBranches ==
    /\ \A j \in DOMAIN hist :
          hist[j].stage = "SKIPPED_EXISTS"
              <=> (hist[j].gate.seen /\ ~args.force
                   /\ hist[j].gate.riverobs /\ hist[j].gate.pixcvec)
    /\ \A w \in writes :
          w.kind = "gdem_pixc" =>
              /\ hist[w.job].gate.seen
              /\ ~(~args.force /\ hist[w.job].gate.riverobs /\ hist[w.job].gate.pixcvec)

C4_Witness ==
    /\ ~args.nogdem
    /\ ~args.force
    /\ \E j \in DOMAIN hist :
          /\ hist[j].gate.riverobs
          /\ ~hist[j].gate.pixcvec
          /\ \E w \in WritesOf(j) : w.kind = "gdem_pixc"
          /\ Str(Abspath(hist[j].loc.output_riverobs_gdem)) \in files
          /\ Str(Abspath(hist[j].loc.output_pixcvec_gdem)) \in files

\* C5 (as stated): two runs over two orderings of the same descriptors, from
\* the same storage, flags and exit statuses, extract the same jobs and leave
\* the same set of files.
C5_OrderInsensitive ==
    (pass = 2 /\ pc \in Terminal)
        => /\ Outcome.files = first.files
           /\ Outcome.extracted = first.extracted

\* C5 (amended): when the run over one ordering goes through the whole batch
\* (no job skipped at the gate, no fatal error), the run over another
\* ordering does too, extracts the same jobs and leaves the same files.
C5_OrderInsensitiveWhenComplete ==
    (pass = 2 /\ first.ended = "end")
        => /\ pc \notin {"returned", "raised"}
           /\ pc = "end" => /\ Outcome.files = first.files
                            /\ Outcome.extracted = first.extracted

C5_Witness ==
    /\ pass = 2
    /\ pc = "end"
    /\ first.ended = "end"
    /\ Cardinality(first.extracted) = 2
    /\ Outcome.extracted = first.extracted

Produced == {w.path : w \in writes}

\* the paths main() has derived for a job
DerivedPaths(l) ==
    {l.output_riverobs, l.output_pixcvec, l.river_ann_file,
     l.output_riverobs_gdem, l.output_pixcvec_gdem, l.gdem_pixc} \ {None}

\* the input files a job's descriptor names
InputsOf(j) ==
    {Abspath(rdf_files[j].parameters[k]) : k \in DOMAIN rdf_files[j].parameters}

\* C6 (as stated): every path recorded in the annotation file of a job names
\* an input of the job or a file this run has produced; a reference-branch
\* entry is recorded only for a reference-branch file that is present, its
\* absence being recorded as such.
C6_AnnotationNamesProducedFiles ==
    \A w \in writes :
        w.kind = "annotation" =>
            \A i \in DOMAIN w.data :
                \/ \E p \in InputsOf(w.job) : w.data[i].value = Format(p)
                \/ \E p \in DerivedPaths(hist[w.job].loc) :
                      /\ w.data[i].value = Format(p)
                      /\ Str(Abspath(p)) \in Produced
                \/ /\ w.data[i].key = "gdem pixc file"
                   /\ w.data[i].value = Format(None)
                   /\ \A x \in WritesOf(w.job) : x.kind # "gdem_pixc"

Lacks(j, key) == key \notin DOMAIN rdf_files[j].parameters

Ended(j) == hist[j].stage \in {"SKIPPED_EXISTS", "ANNOTATED", "DONE", "FATAL"}

\* C7 (as stated): whatever the flags, a job whose descriptor lacks
\* `l2pixc file` or `true GDEM file` ends in a fatal error, with no extraction
\* call, shapefile export or annotation write.
C7_BothKeysRequired ==
    \A j \in DOMAIN hist :
        (Lacks(j, "l2pixc file") \/ Lacks(j, "true GDEM file"))
            => /\ Ended(j) => hist[j].stage = "FATAL"
               /\ CallsOf(j) = {}
               /\ \A w \in WritesOf(j) : w.kind = "gdem_pixc"

\* C7 (amended): a job whose descriptor lacks `l2pixc file` ends in a fatal
\* error whatever the flags; a job whose descriptor lacks `true GDEM file`
\* ends in a fatal error when the reference branch is enabled and the gate
\* does not skip it; in both cases nothing is extracted, exported or
\* annotated for it.  The missing `true GDEM file` is an error only there:
\* with the reference branch disabled the key is not read.
C7_KeysRequiredWhereRead ==
    /\ \A j \in DOMAIN hist :
          Lacks(j, "l2pixc file")
              => /\ Ended(j) => hist[j].stage = "FATAL"
                 /\ CallsOf(j) = {}
                 /\ WritesOf(j) = {}
    /\ \A j \in DOMAIN hist :
          (Lacks(j, "true GDEM file") /\ ~args.nogdem)
              => /\ Ended(j) => hist[j].stage \in {"FATAL", "SKIPPED_EXISTS"}
                 /\ CallsOf(j) = {}
                 /\ WritesOf(j) = {}
    /\ (error.type = "KeyError" /\ error.key = "true GDEM file")
          => /\ ~args.nogdem
             /\ hist[error.job].gate.seen
             /\ hist[error.job].stage = "FATAL"

C7_Witness ==
    /\ pc = "raised"
    /\ error.type = "KeyError"
    /\ error.key = "true GDEM file"
    /\ error.job = 2
    /\ hist[1].stage = "DONE"
    /\ Lacks(1, "true GDEM file") = FALSE

\* the fields of the name of descriptor j
Fields(j) == PixcAnnSplit(rdf_files[j].path)

\* C8 (as stated): a descriptor whose name does not split into exactly five
\* fields is a hard input error: the job is aborted before any output path
\* is derived, any file written or the extraction invoked.
C8_MalformedNameIsError ==
    \A j \in DOMAIN hist :
        Len(Fields(j)) # 5
            => /\ hist[j].stage \in {"DISCOVERED", "FATAL"}
               /\ DerivedPaths(hist[j].loc) = {}
               /\ WritesOf(j) = {}
               /\ CallsOf(j) = {}

Resolved(j) == hist[j].loc.output_riverobs # None

\* tile identity as parsed from the file name
Identity(j) ==
    <<Str(hist[j].loc.num_cycle), Str(hist[j].loc.num_orbit), Str(hist[j].loc.lat_tile)>>

PathsOf(j) == {Str(Abspath(p)) : p \in DerivedPaths(hist[j].loc)}

GdemPixcOf(j) == {Str(Abspath(p)) : p \in {hist[j].loc.gdem_pixc} \ {None}}

Hyphened(j) ==
    \/ \E i \in DOMAIN hist[j].loc.num_cycle : hist[j].loc.num_cycle[i] = "-"
    \/ \E i \in DOMAIN hist[j].loc.num_orbit : hist[j].loc.num_orbit[i] = "-"

\* C9 (as stated): the output paths derived for two descriptors whose tile
\* identities differ in a component have no path in common.
C9_PathsDisjointByTile ==
    \A i, j \in DOMAIN hist :
        (i # j /\ Resolved(i) /\ Resolved(j) /\ Identity(i) # Identity(j))
            => PathsOf(i) \cap PathsOf(j) = {}

\* C9 (amended): for two descriptors whose tile identities differ in a
\* component, the rivertile, pixcvec and annotation paths derived for them
\* have no path in common; the synthetic pixel cloud paths
\* pixel_cloud_gdem<cycle>-<orbit>_<tile>.nc differ too unless both
\* identities have a '-' in their cycle or orbit.
C9_PathsDisjointUnlessHyphens ==
    \A i, j \in DOMAIN hist :
        (i # j /\ Resolved(i) /\ Resolved(j) /\ Identity(i) # Identity(j))
            => /\ PathsOf(i) \cap PathsOf(j) \subseteq GdemPixcOf(i) \cap GdemPixcOf(j)
               /\ (~Hyphened(i) \/ ~Hyphened(j)) => PathsOf(i) \cap PathsOf(j) = {}

C9_Witness ==
    /\ Len(rdf_files) = 2
    /\ Resolved(1) /\ Resolved(2)
    /\ Identity(1) # Identity(2)
    /\ Hyphened(1) /\ ~Hyphened(2)
    /\ GdemPixcOf(1) # {} /\ GdemPixcOf(2) # {}
    /\ Cardinality(PathsOf(1) \cup PathsOf(2)) = 12

\* the files the gate of job j tests
GatePaths(j) ==
    {Str(Abspath(p)) : p \in {hist[j].loc.output_riverobs, hist[j].loc.output_pixcvec} \ {None}}

\* no path written by two jobs; no job gated by a file another job wrote
Exclusive ==
    /\ \A w1, w2 \in writes : w1.path = w2.path => w1.job = w2.job
    /\ \A j \in DOMAIN hist :
          hist[j].gate.seen => \A w \in writes : w.job # j => w.path \notin GatePaths(j)

\* C10 (as stated): in a run over distinct descriptors, no output path is
\* written by two different jobs and no job is gated by, or overwrites, a
\* file produced by another job of the run.
C10_ExclusiveOutputs == Exclusive

\* the names the outputs of a descriptor are derived from, when its name has
\* the fields: <cycle>_<orbit>_<tile> and <cycle>-<orbit>_<tile>
TileNames(j) ==
    LET f == Fields(j)
    IN  IF Len(f) < 5 THEN <<"", "">>
        ELSE <<Str(TileName(f[3], f[4], f[5])),
               Str(f[3] \o <<"-">> \o f[4] \o <<"_">> \o f[5])>>

DistinctTiles ==
    \A i, j \in DOMAIN rdf_files :
        (i # j /\ Len(Fields(i)) >= 5 /\ Len(Fields(j)) >= 5)
            => /\ TileNames(i)[1] # TileNames(j)[1]
               /\ TileNames(i)[2] # TileNames(j)[2]

\* C10 (amended): in a run over descriptors whose names yield pairwise
\* different tile identities (and pairwise different <cycle>-<orbit>_<tile>),
\* no output path is written by two different jobs and no job is gated by,
\* or overwrites, a file produced by another job of the run.
C10_ExclusiveOutputsByTile == Exclusive \/ ~DistinctTiles

C10_Witness ==
    /\ DistinctTiles
    /\ pc = "end"
    /\ Len(rdf_files) = 2
    /\ \A j \in {1, 2} :
          /\ hist[j].stage = "DONE"
          /\ {w.kind : w \in WritesOf(j)} =
                {"gdem_pixc", "rivertile", "pixcvec", "node_shp", "reach_shp",
                 "pixcvec_shp", "annotation"}

(***************************************************************************)
(* C11: a batch without descriptors is not an error: no job is processed   *)
(* (nothing is created on storage, no pixel cloud is synthesized, the      *)
(* extraction is not called, no annotation is written) and main() returns  *)
(* normally, without an exception.                                         *)
(***************************************************************************)
C11_EmptyBatchSucceeds ==
    Len(rdf_files) = 0 =>
        /\ pc \in {"for", "end"}
        /\ error = NoError
        /\ files = files0
        /\ dirs = dirs0
        /\ writes = {}
        /\ calls = {}

C11_Witness ==
    /\ Len(rdf_files) = 0
    /\ pc = "end"
    /\ error = NoError

(***************************************************************************)
(* Properties of make_pixc_from_gdem, stated on the arguments of the call  *)
(***************************************************************************)
Ceil(a, k) == (a + k - 1) \div k

\* the cells (a, r) of the decimated grid, rows and columns counted from 1
DecimatedCells ==
    (1..Ceil(Len(conv.given.gdem_file.landtype), conv.given.subsample_factor))
        \X (1..Len(conv.given.gdem_file.landtype[1]))

\* the value a named array of the GDEM has at a cell of the decimated grid
At(name, c) ==
    conv.given.gdem_file[name][(c[1] - 1) * conv.given.subsample_factor + 1][c[2]]

WaterCells == {c \in DecimatedCells : At("landtype", c) = Water}

(***************************************************************************)
(* C12: in the written pixel cloud every per-pixel array has the same      *)
(* length N, the number of cells of the decimated grid whose landtype is   *)
(* the water class; with no such cell every array is empty and the         *)
(* conversion still completes.                                             *)
(***************************************************************************)
C12_SameLength ==
    conv.cpc = "done" =>
        \A n \in PerPixel :
            /\ n \in DOMAIN conv.out
            /\ Len(conv.out[n]) = Cardinality(WaterCells)

C12_Witness ==
    /\ conv.cpc = "done"
    /\ conv.given.subsample_factor >= 2
    /\ Cardinality(WaterCells) >= 2
    /\ WaterCells # DecimatedCells
    /\ \A n \in PerPixel : Len(conv.out[n]) = Cardinality(WaterCells)

\* row-major order of the cells
Before(c, d) == c[1] < d[1] \/ (c[1] = d[1] /\ c[2] < d[2])

\* the position of a water cell among the water cells, in row-major order
Rank(c) == Cardinality({d \in WaterCells : Before(d, c)}) + 1

(***************************************************************************)
(* C13: the pixels of the written cloud are the water cells of the         *)
(* decimated grid in row-major order: the i-th pixel is the i-th such cell *)
(* (a, r), with range_index r, azimuth_index a and illumination_time a     *)
(* (counted from 0), the cross_track value of column r, and the elevation, *)
(* latitude and longitude of the decimated grid at (a, r).  On the 4 x 3   *)
(* example grid with factor 2 the cloud has 2 pixels, range_index [1, 2]   *)
(* and azimuth_index [0, 1].                                               *)
(***************************************************************************)
C13_RowMajorPixels ==
    conv.cpc = "done" =>
        /\ \A c \in WaterCells :
              LET i == Rank(c)
              IN  /\ i <= Len(conv.out.range_index)
                  /\ conv.out.range_index[i] = c[2] - 1
                  /\ conv.out.azimuth_index[i] = c[1] - 1
                  /\ conv.out.illumination_time[i] = c[1] - 1
                  /\ conv.out.cross_track[i] = conv.given.gdem_file.cross_track[c[2]]
                  /\ conv.out.height[i] = At("elevation", c)
                  /\ conv.out.latitude[i] = At("latitude", c)
                  /\ conv.out.longitude[i] = At("longitude", c)
        /\ Len(conv.out.range_index) = Cardinality(WaterCells)
        /\ (conv.given.gdem_file.landtype = ExampleLandtype
            /\ conv.given.subsample_factor = 2) =>
               /\ conv.out.range_index = <<1, 2>>
               /\ conv.out.azimuth_index = <<0, 1>>

C13_Witness ==
    /\ conv.cpc = "done"
    /\ conv.given.gdem_file.landtype = ExampleLandtype
    /\ conv.given.subsample_factor = 2
    /\ conv.out.range_index = <<1, 2>>
    /\ conv.out.azimuth_index = <<0, 1>>
    /\ conv.out.height = <<At("elevation", <<1, 2>>), At("elevation", <<2, 3>>)>>

\* the four 2-D arrays of the GDEM and the local variables that hold them decimated
Decimated ==
    {<<"landtype", conv.landtype>>, <<"elevation", conv.elevation>>,
     <<"latitude", conv.lat>>, <<"longitude", conv.lon>>}

(***************************************************************************)
(* C14: for a grid of A rows and R columns and a factor k >= 1, landtype,  *)
(* elevation, latitude and longitude are decimated alike to ceil(A/k) rows *)
(* of R columns; row j of each (from 0) is row j*k of the original, value  *)
(* for value; cross_track and the columns are not decimated.               *)
(***************************************************************************)
C14_Decimation ==
    conv.cpc = "index" =>
        /\ \A v \in Decimated :
              LET original == conv.given.gdem_file[v[1]]
              IN  /\ Len(v[2]) = Ceil(Len(original), conv.given.subsample_factor)
                  /\ \A j \in 1..Len(v[2]) :
                        v[2][j] = original[(j - 1) * conv.given.subsample_factor + 1]
        /\ conv.cross_track = conv.given.gdem_file.cross_track

C14_Witness ==
    /\ conv.cpc = "index"
    /\ conv.given.subsample_factor = 2
    /\ Len(conv.given.gdem_file.landtype) = 5
    /\ Len(conv.landtype) = 3
    /\ conv.elevation = <<conv.given.gdem_file.elevation[1],
                          conv.given.gdem_file.elevation[3],
                          conv.given.gdem_file.elevation[5]>>

(***************************************************************************)
(* C15: every pixel of the written cloud has classification 4 (interior    *)
(* water) and continuous_classification exactly 1, whatever the landtype   *)
(* and elevation values of the GDEM and whatever the observed pixel cloud  *)
(* holds; no other classification value is in the result.                  *)
(***************************************************************************)
C15_ConstantClass ==
    conv.cpc = "done" =>
        /\ \A i \in 1..Len(conv.out.classification) :
              conv.out.classification[i] = 4
        /\ \A i \in 1..Len(conv.out.continuous_classification) :
              conv.out.continuous_classification[i] = 1

C15_Witness ==
    /\ conv.cpc = "done"
    /\ Cardinality(WaterCells) >= 2
    /\ \E c \in DecimatedCells : At("landtype", c) = 2
    /\ conv.given.pixc_file.classification # conv.out.classification
    /\ conv.out.classification = [i \in 1..Cardinality(WaterCells) |-> 4]
    /\ conv.out.continuous_classification = [i \in 1..Cardinality(WaterCells) |-> 1]

\* equality of two values of any kind: a number and an array are different
Same(x, y) == ToString(x) = ToString(y)

\* the observed pixel cloud file and the object loaded from it are as given
DonorUnchanged ==
    /\ conv.pixc_file = conv.given.pixc_file
    /\ conv.cpc \in {"attrs", "vars", "write", "done"} =>
          conv.pixc_in = FromNcfile(conv.given.pixc_file)

\* description, nr_pixels and nr_lines of the written cloud are those of the GDEM
GdemGlobals ==
    /\ conv.out.description = "gdem water pixels repacked as a pixel cloud"
    /\ conv.out.nr_pixels = Len(conv.given.gdem_file.landtype[1])
    /\ conv.out.nr_lines = Ceil(Len(conv.given.gdem_file.landtype),
                                conv.given.subsample_factor)

\* right after the copy the new cloud has every global attribute of the donor
CopiedFirst ==
    conv.cpc = "attrs" =>
        \A n \in GlobalAttributes : conv.pixc[n] = conv.given.pixc_file[n]

(***************************************************************************)
(* C19 as stated: the global attributes of the observed pixel cloud are    *)
(* copied before any is overwritten; description, nr_pixels (R) and        *)
(* nr_lines (ceil(A/k)) are then set, and in the written cloud every other *)
(* global attribute equals the donor's; the donor is unchanged.            *)
(***************************************************************************)
C19_ThreeOverridden ==
    /\ CopiedFirst
    /\ DonorUnchanged
    /\ conv.cpc = "done" =>
          /\ GdemGlobals
          /\ \A n \in GlobalAttributes \ {"description", "nr_pixels", "nr_lines"} :
                Same(conv.out[n], conv.given.pixc_file[n])

(***************************************************************************)
(* C19 amended: the global attributes of the observed pixel cloud are      *)
(* copied before any is overwritten; description, nr_pixels (R), nr_lines  *)
(* (ceil(A/k)) and num_rare_looks (the subsample factor, then its per-     *)
(* pixel array) are then set, and in the written cloud every other global  *)
(* attribute, tile_ref in particular, equals the donor's; the donor is     *)
(* unchanged.                                                              *)
(***************************************************************************)
C19_FourOverridden ==
    /\ CopiedFirst
    /\ DonorUnchanged
    /\ conv.cpc = "vars" => conv.pixc.num_rare_looks = conv.given.subsample_factor
    /\ conv.cpc = "done" =>
          /\ GdemGlobals
          /\ conv.out.num_rare_looks =
                [i \in 1..Cardinality(WaterCells) |-> conv.given.subsample_factor]
          /\ \A n \in GlobalAttributes \ {"description", "nr_pixels", "nr_lines",
                                          "num_rare_looks"} :
                Same(conv.out[n], conv.given.pixc_file[n])

C19_Witness ==
    /\ conv.cpc = "done"
    /\ conv.out.tile_ref = conv.given.pixc_file.tile_ref
    /\ conv.out.description # conv.given.pixc_file.description
    /\ conv.out.nr_pixels # conv.given.pixc_file.nr_pixels
    /\ conv.out.nr_lines # conv.given.pixc_file.nr_lines
    /\ conv.out.nr_pixels # conv.out.nr_lines
    /\ ~Same(conv.out.num_rare_looks, conv.given.pixc_file.num_rare_looks)

(***************************************************************************)
(* Properties of main(), continued                                         *)
(***************************************************************************)
KindsOf(j) == {w.kind : w \in WritesOf(j)}

GdemKinds == IF args.nogdem THEN {} ELSE {"gdem_pixc"}

ExtractionKinds == {"rivertile", "pixcvec"}

ShapefileKinds == {"node_shp", "reach_shp", "pixcvec_shp"}

\* job j has had exactly one extraction call, and it exited with status 0
ExtractedOnce(j) ==
    /\ Cardinality(CallsOf(j)) = 1
    /\ \A c \in CallsOf(j) : c.rc = 0

\* what job j has written and called, by the stage it is in
StageHolds(j) ==
    LET stage == hist[j].stage
        kinds == KindsOf(j)
    IN  /\ Cardinality(WritesOf(j)) = Cardinality(kinds)
        /\ stage \in {"DISCOVERED", "PATHS_RESOLVED", "SKIPPED_EXISTS"} =>
              kinds = {} /\ CallsOf(j) = {}
        /\ stage = "GDEM_SYNTHESIZED" =>
              ~args.nogdem /\ kinds = {"gdem_pixc"} /\ CallsOf(j) = {}
        /\ stage = "EXTRACTED" =>
              kinds = GdemKinds \cup ExtractionKinds /\ ExtractedOnce(j)
        /\ stage = "SHAPEFILES_WRITTEN" =>
              /\ ~args.noshp
              /\ kinds = GdemKinds \cup ExtractionKinds \cup ShapefileKinds
              /\ ExtractedOnce(j)
        /\ stage \in {"ANNOTATED", "DONE"} =>
              /\ kinds = GdemKinds \cup ExtractionKinds
                         \cup (IF args.noshp THEN {} ELSE ShapefileKinds)
                         \cup {"annotation"}
              /\ ExtractedOnce(j)
        /\ stage = "FATAL" =>
              /\ kinds \subseteq GdemKinds \cup ExtractionKinds
              /\ Cardinality(CallsOf(j)) = IF hist[j].rc = NotRun THEN 0 ELSE 1
              /\ kinds \cap ExtractionKinds # {} => ExtractedOnce(j)

\* the jobs before the current one are done, the jobs after it not begun
OneJobAtATime ==
    \A j \in DOMAIN hist :
        /\ j < idx => \/ hist[j].stage = "DONE"
                      \/ j = idx - 1 /\ pc = "for" /\ hist[j].stage = "ANNOTATED"
        /\ j > idx => Untouched(j)

\* the stage changes a job can make
StageOrder ==
    {<<"DISCOVERED", "PATHS_RESOLVED">>, <<"PATHS_RESOLVED", "SKIPPED_EXISTS">>,
     <<"SHAPEFILES_WRITTEN", "ANNOTATED">>, <<"ANNOTATED", "DONE">>,
     <<"DISCOVERED", "FATAL">>, <<"PATHS_RESOLVED", "FATAL">>,
     <<"GDEM_SYNTHESIZED", "FATAL">>, <<"EXTRACTED", "FATAL">>}
    \cup (IF args.nogdem
          THEN {<<"PATHS_RESOLVED", "EXTRACTED">>}
          ELSE {<<"PATHS_RESOLVED", "GDEM_SYNTHESIZED">>, <<"GDEM_SYNTHESIZED", "EXTRACTED">>})
    \cup (IF args.noshp
          THEN {<<"EXTRACTED", "ANNOTATED">>}
          ELSE {<<"EXTRACTED", "SHAPEFILES_WRITTEN">>})

StageStep ==
    \A j \in DOMAIN hist :
        \/ pass' # pass
        \/ hist'[j].stage = hist[j].stage
        \/ <<hist[j].stage, hist'[j].stage>> \in StageOrder

(***************************************************************************)
(* C16: a job that is not skipped goes through its stages in the order     *)
(* paths resolved, reference pixel cloud written (reference branch only),  *)
(* extraction, the three shapefiles node, reach, pixcvec of the observed   *)
(* branch (export enabled only), annotation, done, as far as it gets       *)
(* before a fatal error; the extraction is called once, never twice;       *)
(* shapefiles and annotation are written only after an extraction that     *)
(* exited with status 0; no stage of a job starts before the job before it *)
(* is done.                                                                *)
(***************************************************************************)
C16_StagesInOrder ==
    /\ [](\A j \in DOMAIN hist : StageHolds(j))
    /\ []OneJobAtATime
    /\ [][StageStep]_vars

C16_Witness ==
    /\ Len(rdf_files) = 2
    /\ ~args.nogdem
    /\ ~args.noshp
    /\ hist[1].stage = "DONE"
    /\ hist[2].stage = "ANNOTATED"
    /\ Cardinality(WritesOf(2)) = 7
    /\ ExtractedOnce(2)

\* the rivertile, pixcvec and shapefile paths of the reference branch of job j
ReferenceOutputs(j) ==
    IF Len(Fields(j)) < 5 THEN {}
    ELSE LET f == Fields(j)
             rt == OutputRiverobs(RiverDirGdem(args.output_dir), f[3], f[4], f[5])
             pv == OutputPixcvec(RiverDirGdem(args.output_dir), f[3], f[4], f[5])
         IN  {Str(Abspath(p)) : p \in {rt, pv, Replace(rt, ".nc", "_node.shp"),
                                       Replace(rt, ".nc", "_reach.shp"),
                                       Replace(pv, ".nc", ".shp")}}

\* the command line that runs the extraction of job j on the observed pixel cloud
ObservedCommand(j) ==
    LET f == Fields(j)
        observed == Abspath(Join(args.output_dir, <<"pixc">>))
    IN  Str(environ.RIVEROBS) \o "/src/bin/swot_pixc2rivertile.py "
        \o Str(Abspath(rdf_files[j].parameters["l2pixc file"])) \o " "
        \o Str(OutputRiverobs(observed, f[3], f[4], f[5])) \o " "
        \o Str(OutputPixcvec(observed, f[3], f[4], f[5])) \o " "
        \o Str(Abspath(args.parameter_riverobs))

(***************************************************************************)
(* C17: the extraction runs only on the observed pixel cloud, with the     *)
(* rivertile and pixcvec files of the observed branch as outputs, never on *)
(* the synthetic pixel cloud of the reference branch; no file is written   *)
(* at the rivertile or pixcvec path of the reference branch, nor at the    *)
(* path of any shapefile of the reference branch.                          *)
(***************************************************************************)
C17_ReferenceExtractionInert ==
    /\ \A c \in calls : c.cmd = ObservedCommand(c.job)
    /\ files \ files0 \subseteq Produced
    /\ writes # {} => \A j \in DOMAIN hist : Produced \cap ReferenceOutputs(j) = {}

C17_Witness ==
    /\ ~args.nogdem
    /\ ~args.noshp
    /\ Len(rdf_files) >= 1
    /\ hist[1].stage = "DONE"
    /\ \E w \in WritesOf(1) : w.kind = "gdem_pixc"
    /\ \E c \in CallsOf(1) : c.cmd = ObservedCommand(1)
    /\ \A p \in ReferenceOutputs(1) : p \notin files \ files0
    /\ ReferenceOutputs(1) # {}

\* the directory a file at path p is created in exists
DirectoryExists(p) == IsDir(Dirname(Abspath(p)))

\* the files job idx is about to write, by the position of main()
AboutToWrite ==
    IF pc = "gdem" /\ "true GDEM file" \in DOMAIN rdf_files[idx].parameters
    THEN {GdemPixc(loc.river_dir_gdem, loc.num_cycle, loc.num_orbit, loc.lat_tile)}
    ELSE IF pc = "execute"
    THEN {loc.output_riverobs, loc.output_pixcvec}
    ELSE IF pc = "shp" /\ ~args.noshp
    THEN {Replace(loc.output_riverobs, ".nc", "_node.shp"),
          Replace(loc.output_riverobs, ".nc", "_reach.shp"),
          Replace(loc.output_pixcvec, ".nc", ".shp")}
    ELSE IF pc = "ann"
    THEN {loc.river_ann_file}
    ELSE {}

(***************************************************************************)
(* C18: wherever a job writes a file (the synthetic pixel cloud in the     *)
(* reference directory, the extraction outputs and the shapefiles in the   *)
(* observed directory, the annotation in the output root) the directory of *)
(* the file has been created; creating is create-if-absent (a directory    *)
(* that exists stays and is no error) and the reference directory is       *)
(* created only when the reference branch is enabled.                      *)
(***************************************************************************)
C18_DirectoriesExist ==
    /\ \A p \in AboutToWrite : DirectoryExists(p)
    /\ dirs0 \subseteq dirs
    /\ args.nogdem => \/ ~IsDir(RiverDirGdem(args.output_dir))
                      \/ Str(Abspath(RiverDirGdem(args.output_dir))) \in dirs0

====
